---------------------------- MODULE Spec2Model ----------------------------
(***************************************************************************)
(* Model of the Telegram audio transcription bot (src/main.py).            *)
(*                                                                         *)
(* The process consists of main(), which reads the bot token and starts    *)
(* polling, and of handle_audio coroutines ("runs"), one per inbound       *)
(* message, all scheduled on one asyncio event loop.  A coroutine owns the *)
(* loop's thread between two await points; `running` names the run that    *)
(* currently owns it (0 when the loop is idle and free to resume any       *)
(* awaiting coroutine).  transcribe_audio is a synchronous function, so    *)
(* the run that is inside requests.post keeps the thread.                  *)
(***************************************************************************)
EXTENDS Integers, Sequences, FiniteSets, TLC

\* Number of handle_audio runs that may be in flight on the event loop.
NumRuns == 2

Runs == 1..NumRuns

\* ------------------------------------------------------------------------
\* Values
\* ------------------------------------------------------------------------

\* os.environ.get(name) is None when the variable is unset.
NoneVal == "<None>"

\* Possible values of an environment variable: unset, empty, or a secret.
EnvValues == {NoneVal, "", "secret"}

\* Python truthiness of os.environ.get(...): None and "" are falsy.
Falsy(v) == v = NoneVal \/ v = ""

\* The status code transcribe_audio accepts.
StatusOK == 200

\* A status of the 2xx class.
Is2xx(s) == s \div 100 = 2

\* Texts the transcription endpoint may put in the "text" field.
Texts == {"", "hello", "hi there"}

\* Raw response bodies of rejected requests (response.text).
Bodies == {"invalid_api_key", "quota exceeded"}

\* Canned replies of handle_audio.
MsgNoAudio == "MSG: please send an audio file or a voice message"
MsgTranscodeFail == "MSG: could not process the audio file"
MsgTranscribeFail == "MSG: an error occurred during recognition"
MsgEmpty == "MSG: could not recognize speech or get text"

Response(s, h, t, b) == [status |-> s, hasText |-> h, text |-> t, body |-> b]

NoResp == Response(0, FALSE, "", "")

\* Responses with a JSON body, with or without a "text" field.
JsonResponses ==
    {Response(s, TRUE, t, "json") : s \in {200, 201}, t \in Texts}
        \cup {Response(s, FALSE, "", "json") : s \in {200, 201}}

\* Responses the endpoint rejects the request with.
RejectResponses ==
    {Response(s, FALSE, "", b) : s \in {400, 500}, b \in Bodies}

Responses == JsonResponses \cup RejectResponses

Reply(c, t) == [cat |-> c, text |-> t]

NoReply == Reply("none", "")

\* The default of transcribe_audio's language parameter: detect the language.
AutoLanguage == "auto"

\* Language hints a caller of transcribe_audio may pass.
Languages == {AutoLanguage, "uk", "en"}

\* The model field of every transcription request.
WhisperModel == "whisper-1"

\* A call of transcribe_audio: its position, its language argument, the
\* form data it posted, the response it got and the text it returned.
Call(p, l, d, rsp, t) ==
    [pc |-> p, language |-> l, data |-> d, resp |-> rsp, result |-> t]

\* The calls of handle_audio that make up the pipeline stages, in source order.
StageCalls ==
    <<"ensure_ffmpeg", "get_file", "download_to_drive",
      "from_file", "export", "transcribe_audio">>

\* Stage a call belongs to.
StageOf(c) ==
    CASE c = "ensure_ffmpeg" -> "guard"
      [] c \in {"get_file", "download_to_drive"} -> "fetch"
      [] c \in {"from_file", "export"} -> "transcode"
      [] OTHER -> "transcribe"

MessageKinds == {"none", "text", "voice", "audio"}

\* ------------------------------------------------------------------------
\* Paths.  A file name is a sequence of characters, a path the sequence of
\* its components from the root.
\* ------------------------------------------------------------------------

NameInput == <<"i", "n", "p", "u", "t">>

NameOgg == <<"a", ".", "o", "g", "g">>

NameMp3 == <<"a", ".", "m", "p", "3">>

DotDot == <<".", ".">>

\* The suffix handle_audio gives the converted file.
Mp3Suffix == <<".", "m", "p", "3">>

\* tg_file.file_name as pathlib parses it: absent (None), or the components
\* of a relative or absolute path.
FileName(d, a, ps) == [declared |-> d, abs |-> a, parts |-> ps]

NoName == FileName(FALSE, FALSE, <<>>)

\* File names a sender may declare: "a.ogg", "a.mp3", "/a.ogg", "../a.ogg".
DeclaredNames ==
    {FileName(TRUE, FALSE, <<NameOgg>>),
     FileName(TRUE, FALSE, <<NameMp3>>),
     FileName(TRUE, TRUE, <<NameOgg>>),
     FileName(TRUE, FALSE, <<DotDot, NameOgg>>)}

FileNames == {NoName} \cup DeclaredNames

\* `if tg_file.file_name`: None and "" are falsy.
name_truthy(fn) == fn.declared /\ fn.parts # <<>>

\* The directory tempfile.TemporaryDirectory() creates for run r: a fresh
\* name under the system's temporary directory.
TmpDir(r) == <<(<<"t", "m", "p">>), (<<"d", ToString(r)>>)>>

\* pathlib: Path(base) / name; an absolute name replaces the base.
path_join(base, fn) == IF fn.abs THEN fn.parts ELSE base \o fn.parts

\* str.rfind(".") on a name, as a position from 1; 0 when there is no dot.
RFindDot(n) ==
    IF \E i \in 1..Len(n) : n[i] = "."
    THEN CHOOSE i \in 1..Len(n) :
             /\ n[i] = "."
             /\ \A j \in (i + 1)..Len(n) : n[j] # "."
    ELSE 0

\* pathlib: PurePath.stem, the final component without its suffix.
path_stem(p) ==
    LET n == p[Len(p)]
        i == RFindDot(n)
    IN  IF 1 < i /\ i < Len(n) THEN SubSeq(n, 1, i - 1) ELSE n

\* handle_audio line 164: the path the payload is downloaded to.
original_path(r, fn) ==
    IF name_truthy(fn)
    THEN path_join(TmpDir(r), fn)
    ELSE Append(TmpDir(r), NameInput)

\* handle_audio line 170: the path the mp3 is exported to.
converted_path(r, fn) ==
    Append(TmpDir(r), path_stem(original_path(r, fn)) \o Mp3Suffix)

RECURSIVE ResolveFrom(_, _)
\* The location a path names: ".." steps to the parent directory.
ResolveFrom(acc, p) ==
    IF p = <<>> THEN acc
    ELSE IF p[1] = DotDot
         THEN ResolveFrom(IF acc = <<>> THEN acc
                          ELSE SubSeq(acc, 1, Len(acc) - 1), Tail(p))
         ELSE ResolveFrom(Append(acc, p[1]), Tail(p))

Resolve(p) == ResolveFrom(<<>>, p)

\* The location of p lies below directory d.
Inside(p, d) ==
    LET q == Resolve(p)
    IN  Len(q) > Len(d) /\ SubSeq(q, 1, Len(d)) = d

\* A file: its location, what it holds and the run that wrote it.
File(p, k, r) == [path |-> Resolve(p), kind |-> k, run |-> r]

\* Writing file f into the set S of files replaces a file at the same
\* location.
Put(S, f) == {g \in S : g.path # f.path} \cup {f}

VARIABLES
    botToken,   \* os.environ.get("TELEGRAM_BOT_TOKEN")
    apiKey,     \* os.environ.get("OPENAI_API_KEY")
    ffmpeg,     \* TRUE iff which("ffmpeg") is not None
    mainPc,     \* position of main()
    running,    \* run that owns the event loop's thread, 0 if none
    pc,         \* position of each handle_audio run
    kind,       \* what update.effective_message carries
    fileName,   \* tg_file.file_name of the attachment of the run's message
    calls,      \* stage calls made by the run, in order
    failed,     \* first stage that raised in the run, "none" otherwise
    exc,        \* exception that left handle_audio, "none" otherwise
    wsCreated,  \* TRUE once the run entered tempfile.TemporaryDirectory()
    tmpdir,     \* TRUE while the run's temporary directory exists
    files,      \* files in the run's temporary directory
    outside,    \* files the runs wrote outside their temporary directories
    tcall,      \* a call of transcribe_audio by a caller other than handle_audio
    resp,       \* response requests.post returned to the run
    pending,    \* reply_text call the run is awaiting
    replies     \* replies delivered to the sender of the run

vars == <<botToken, apiKey, ffmpeg, mainPc, running, pc, kind, fileName,
          calls, failed, exc, wsCreated, tmpdir, files, outside, tcall,
          resp, pending, replies>>

envVars == <<botToken, apiKey, ffmpeg>>

Terminated(r) == pc[r] \in {"done", "raised", "cancelled"}

\* ------------------------------------------------------------------------
\* Pure parts of the code
\* ------------------------------------------------------------------------

\* ensure_ffmpeg raises EnvironmentError iff which("ffmpeg") is None.
ensure_ffmpeg_raises(ff) == ~ff

\* main: `if not bot_token: raise ValueError`.
main_raises(token) == Falsy(token)

\* handle_audio: `if not message: return`.
has_message(k) == k # "none"

\* Variant of has_attachment without the `if tg_file is None` test.
has_attachment_always(k) == TRUE

\* handle_audio: `tg_file = message.voice or message.audio` is not None.
has_attachment(k) == k \in {"voice", "audio"}

\* transcribe_audio: `if not api_key: raise ValueError`.
api_key_missing(key) == Falsy(key)

\* Variant of request_data without the `if language != "auto"` test.
request_data_always(language) ==
    {<<"model", WhisperModel>>, <<"language", language>>}

\* transcribe_audio: the form fields of the request, as key/value pairs.
request_data(language) ==
    {<<"model", WhisperModel>>}
        \cup (IF language # AutoLanguage
              THEN {<<"language", language>>} ELSE {})

\* transcribe_audio: `if response.status_code != 200: raise ValueError`.
status_is_error(s) == s # StatusOK

\* Variant of json_get_text reading a key the response does not have.
json_get_text_wrong_key(rsp) == ""

\* transcribe_audio: `result.get("text", "")`.
json_get_text(rsp) == IF rsp.hasText THEN rsp.text ELSE ""

\* Variant of transcode_error_reply sending the transcription apology.
transcode_error_reply_wrong == Reply("TranscribeFailure", MsgTranscribeFail)

\* handle_audio, except-branch of the conversion.
transcode_error_reply == Reply("TranscodeFailure", MsgTranscodeFail)

\* Variant of transcribe_error_reply echoing the exception text.
transcribe_error_reply_body(body) == Reply("TranscribeFailure", body)

\* handle_audio, except-branch of the transcription; `body` is the text the
\* raised ValueError carries (response.text).
transcribe_error_reply(body) == Reply("TranscribeFailure", MsgTranscribeFail)

\* Variant of transcript_reply without the `if not transcript` test.
transcript_reply_always(t) == Reply("Success", t)

\* handle_audio: `if not transcript: ... else: reply_text(transcript)`.
transcript_reply(t) ==
    IF t = "" THEN Reply("EmptyResult", MsgEmpty) ELSE Reply("Success", t)

\* What handle_audio replies with once requests.post returned rsp.
reply_for_response(rsp) ==
    IF status_is_error(rsp.status)
    THEN transcribe_error_reply(rsp.body)
    ELSE transcript_reply(json_get_text(rsp))

\* Variant of tmpdir_exit that leaves the directory in place (mkdtemp
\* without a matching rmtree).
tmpdir_exit_leak(d, r) == d

\* TemporaryDirectory.__exit__: the directory and its contents are removed.
tmpdir_exit(d, r) == [d EXCEPT ![r] = FALSE]

files_exit(f, r) == [f EXCEPT ![r] = {}]

\* ------------------------------------------------------------------------
\* Initial state
\* ------------------------------------------------------------------------

\* State after process start, whatever the messages will carry.
InitProcess ==
    /\ botToken \in EnvValues
    /\ apiKey \in EnvValues
    /\ ffmpeg \in BOOLEAN
    /\ mainPc = "start"
    /\ running = 0
    /\ pc = [r \in Runs |-> "idle"]
    /\ kind = [r \in Runs |-> "none"]
    /\ calls = [r \in Runs |-> <<>>]
    /\ failed = [r \in Runs |-> "none"]
    /\ exc = [r \in Runs |-> "none"]
    /\ wsCreated = [r \in Runs |-> FALSE]
    /\ tmpdir = [r \in Runs |-> FALSE]
    /\ files = [r \in Runs |-> {}]
    /\ resp = [r \in Runs |-> NoResp]
    /\ pending = [r \in Runs |-> NoReply]
    /\ replies = [r \in Runs |-> <<>>]
    /\ outside = {}
    /\ tcall = Call("idle", AutoLanguage, {}, NoResp, "")

\* The attachments declare no file name.
Init ==
    /\ InitProcess
    /\ fileName = [r \in Runs |-> NoName]

\* The attachments declare any of the file names.
InitNames ==
    /\ InitProcess
    /\ fileName \in [Runs -> FileNames]

\* ------------------------------------------------------------------------
\* main()
\* ------------------------------------------------------------------------

\* main: read TELEGRAM_BOT_TOKEN, raise if missing, build the application
\* and register the handlers.
main_build ==
    /\ mainPc = "start"
    /\ mainPc' = IF main_raises(botToken) THEN "raised" ELSE "built"
    /\ UNCHANGED <<envVars, fileName, tcall, outside, running, pc, kind, calls, failed, exc, wsCreated,
                   tmpdir, files, resp, pending, replies>>

\* main: application.run_polling().
run_polling ==
    /\ mainPc = "built"
    /\ mainPc' = "polling"
    /\ UNCHANGED <<envVars, fileName, tcall, outside, running, pc, kind, calls, failed, exc, wsCreated,
                   tmpdir, files, resp, pending, replies>>

\* ------------------------------------------------------------------------
\* handle_audio
\* ------------------------------------------------------------------------

\* The event loop dispatches an update to handle_audio.
dispatch(r) ==
    /\ mainPc = "polling"
    /\ running = 0
    /\ pc[r] = "idle"
    /\ \E k \in MessageKinds : kind' = [kind EXCEPT ![r] = k]
    /\ pc' = [pc EXCEPT ![r] = "ensure_ffmpeg"]
    /\ running' = r
    /\ UNCHANGED <<envVars, fileName, tcall, outside, mainPc, calls, failed, exc, wsCreated, tmpdir,
                   files, resp, pending, replies>>

\* handle_audio: ensure_ffmpeg().
ensure_ffmpeg(r) ==
    /\ running = r
    /\ pc[r] = "ensure_ffmpeg"
    /\ calls' = [calls EXCEPT ![r] = Append(@, "ensure_ffmpeg")]
    /\ IF ensure_ffmpeg_raises(ffmpeg)
       THEN /\ pc' = [pc EXCEPT ![r] = "raised"]
            /\ failed' = [failed EXCEPT ![r] = "guard"]
            /\ exc' = [exc EXCEPT ![r] = "EnvironmentError"]
            /\ running' = 0
       ELSE /\ pc' = [pc EXCEPT ![r] = "check_message"]
            /\ UNCHANGED <<failed, exc, running>>
    /\ UNCHANGED <<envVars, fileName, tcall, outside, mainPc, kind, wsCreated, tmpdir, files, resp,
                   pending, replies>>

\* handle_audio: the checks of effective_message and of voice/audio, up to
\* the first await (reply_text of the prompt, or bot.get_file).
check_message(r) ==
    /\ running = r
    /\ pc[r] = "check_message"
    /\ running' = 0
    /\ CASE ~has_message(kind[r]) ->
              /\ pc' = [pc EXCEPT ![r] = "done"]
              /\ UNCHANGED <<pending, calls>>
         [] has_message(kind[r]) /\ ~has_attachment(kind[r]) ->
              /\ pc' = [pc EXCEPT ![r] = "reply_await"]
              /\ pending' = [pending EXCEPT ![r] = Reply("NoAudio", MsgNoAudio)]
              /\ UNCHANGED calls
         [] OTHER ->
              /\ pc' = [pc EXCEPT ![r] = "get_file_await"]
              /\ calls' = [calls EXCEPT ![r] = Append(@, "get_file")]
              /\ UNCHANGED pending
    /\ UNCHANGED <<envVars, fileName, tcall, outside, mainPc, kind, failed, exc, wsCreated, tmpdir,
                   files, resp, replies>>

\* Result of `await context.bot.get_file(...)`; a failure is not caught
\* anywhere in handle_audio and leaves it.
get_file_return(r) ==
    /\ running = 0
    /\ pc[r] = "get_file_await"
    /\ \/ /\ pc' = [pc EXCEPT ![r] = "enter_workspace"]
          /\ running' = r
          /\ UNCHANGED <<failed, exc>>
       \/ /\ pc' = [pc EXCEPT ![r] = "raised"]
          /\ failed' = [failed EXCEPT ![r] = "fetch"]
          /\ exc' = [exc EXCEPT ![r] = "FetchError"]
          /\ UNCHANGED running
    /\ UNCHANGED <<envVars, fileName, tcall, outside, mainPc, kind, calls, wsCreated, tmpdir, files,
                   resp, pending, replies>>

\* handle_audio: `with tempfile.TemporaryDirectory() as tmpdir`, the
\* computation of original_path and the call of file.download_to_drive,
\* which suspends the run.  The download may never complete.
enter_workspace(r) ==
    /\ running = r
    /\ pc[r] = "enter_workspace"
    /\ wsCreated' = [wsCreated EXCEPT ![r] = TRUE]
    /\ tmpdir' = [tmpdir EXCEPT ![r] = TRUE]
    /\ calls' = [calls EXCEPT ![r] = Append(@, "download_to_drive")]
    /\ \E p \in {"download_await", "download_hung"} :
          pc' = [pc EXCEPT ![r] = p]
    /\ running' = 0
    /\ UNCHANGED <<envVars, fileName, tcall, outside, mainPc, kind, failed, exc, files, resp, pending,
                   replies>>

\* Run r writes a file of kind k at path p: into its temporary directory
\* when p lies there, elsewhere on the file system otherwise.
write_file(r, p, k) ==
    IF Inside(p, TmpDir(r))
    THEN /\ files' = [files EXCEPT ![r] = Put(@, File(p, k, r))]
         /\ UNCHANGED outside
    ELSE /\ outside' = Put(outside, File(p, k, r))
         /\ UNCHANGED files

\* Result of `await file.download_to_drive(...)`; a failure leaves the with
\* block and handle_audio.
download_return(r) ==
    /\ running = 0
    /\ pc[r] = "download_await"
    /\ \/ /\ write_file(r, original_path(r, fileName[r]), "payload")
          /\ pc' = [pc EXCEPT ![r] = "from_file"]
          /\ running' = r
          /\ UNCHANGED <<failed, exc, tmpdir>>
       \/ /\ tmpdir' = tmpdir_exit(tmpdir, r)
          /\ files' = files_exit(files, r)
          /\ pc' = [pc EXCEPT ![r] = "raised"]
          /\ failed' = [failed EXCEPT ![r] = "fetch"]
          /\ exc' = [exc EXCEPT ![r] = "FetchError"]
          /\ UNCHANGED <<running, outside>>
    /\ UNCHANGED <<envVars, fileName, tcall, mainPc, kind, calls, wsCreated, resp, pending,
                   replies>>

\* handle_audio: AudioSegment.from_file(original_path); on an exception the
\* except-branch calls reply_text, which suspends the run.
from_file(r) ==
    /\ running = r
    /\ pc[r] = "from_file"
    /\ calls' = [calls EXCEPT ![r] = Append(@, "from_file")]
    /\ \/ /\ pc' = [pc EXCEPT ![r] = "export"]
          /\ UNCHANGED <<failed, pending, running>>
       \/ /\ failed' = [failed EXCEPT ![r] = "transcode"]
          /\ pending' = [pending EXCEPT ![r] = transcode_error_reply]
          /\ pc' = [pc EXCEPT ![r] = "reply_await"]
          /\ running' = 0
    /\ UNCHANGED <<envVars, fileName, tcall, outside, mainPc, kind, exc, wsCreated, tmpdir, files, resp,
                   replies>>

\* handle_audio: audio.export(converted_path, format="mp3"); same
\* except-branch as from_file.
export(r) ==
    /\ running = r
    /\ pc[r] = "export"
    /\ calls' = [calls EXCEPT ![r] = Append(@, "export")]
    /\ \/ /\ write_file(r, converted_path(r, fileName[r]), "mp3")
          /\ pc' = [pc EXCEPT ![r] = "transcribe_audio"]
          /\ UNCHANGED <<failed, pending, running>>
       \/ /\ failed' = [failed EXCEPT ![r] = "transcode"]
          /\ pending' = [pending EXCEPT ![r] = transcode_error_reply]
          /\ pc' = [pc EXCEPT ![r] = "reply_await"]
          /\ running' = 0
          /\ UNCHANGED <<files, outside>>
    /\ UNCHANGED <<envVars, fileName, tcall, mainPc, kind, exc, wsCreated, tmpdir, resp,
                   replies>>

\* transcribe_audio up to requests.post: the check of OPENAI_API_KEY, then
\* the synchronous POST, during which the run keeps the event loop's thread.
\* The request may never return.
transcribe_audio(r) ==
    /\ running = r
    /\ pc[r] = "transcribe_audio"
    /\ calls' = [calls EXCEPT ![r] = Append(@, "transcribe_audio")]
    /\ IF api_key_missing(apiKey)
       THEN /\ failed' = [failed EXCEPT ![r] = "transcribe"]
            /\ pending' = [pending EXCEPT ![r] =
                              transcribe_error_reply("OPENAI_API_KEY must be set")]
            /\ pc' = [pc EXCEPT ![r] = "reply_await"]
            /\ running' = 0
       ELSE /\ \E p \in {"post", "post_hung"} : pc' = [pc EXCEPT ![r] = p]
            /\ UNCHANGED <<failed, pending, running>>
    /\ UNCHANGED <<envVars, fileName, tcall, outside, mainPc, kind, exc, wsCreated, tmpdir, files, resp,
                   replies>>

\* requests.post returns a response or raises a transport error; the rest
\* of transcribe_audio and the branches of handle_audio up to reply_text.
post_return(r) ==
    /\ running = r
    /\ pc[r] = "post"
    /\ \/ \E rsp \in Responses :
            /\ resp' = [resp EXCEPT ![r] = rsp]
            /\ pending' = [pending EXCEPT ![r] = reply_for_response(rsp)]
            /\ failed' = [failed EXCEPT ![r] =
                             IF status_is_error(rsp.status)
                             THEN "transcribe" ELSE @]
       \/ /\ failed' = [failed EXCEPT ![r] = "transcribe"]
          /\ pending' = [pending EXCEPT ![r] =
                            transcribe_error_reply("connection error")]
          /\ UNCHANGED resp
    /\ pc' = [pc EXCEPT ![r] = "reply_await"]
    /\ running' = 0
    /\ UNCHANGED <<envVars, fileName, tcall, outside, mainPc, kind, calls, exc, wsCreated, tmpdir,
                   files>>
    /\ UNCHANGED replies

\* Variant of after_reply without the `return` of the conversion's
\* except-branch.
after_reply_fallthrough(c) ==
    IF c = "TranscodeFailure" THEN "transcribe_audio" ELSE "done"

\* Position of a run after `await message.reply_text(...)` returned: every
\* reply is followed by `return` or by the end of the function.
after_reply(c) == "done"

\* Result of `await message.reply_text(...)`: the reply is delivered and
\* handle_audio returns, or reply_text raises and the exception leaves
\* handle_audio.  Either way the with block, if entered, is left.
reply_return(r) ==
    /\ running = 0
    /\ pc[r] = "reply_await"
    /\ \/ /\ replies' = [replies EXCEPT ![r] = Append(@, pending[r])]
          /\ IF after_reply(pending[r].cat) = "done"
             THEN /\ pc' = [pc EXCEPT ![r] = "done"]
                  /\ tmpdir' = tmpdir_exit(tmpdir, r)
                  /\ files' = files_exit(files, r)
                  /\ UNCHANGED running
             ELSE /\ pc' = [pc EXCEPT ![r] = after_reply(pending[r].cat)]
                  /\ running' = r
                  /\ UNCHANGED <<tmpdir, files>>
          /\ UNCHANGED exc
       \/ /\ pc' = [pc EXCEPT ![r] = "raised"]
          /\ exc' = [exc EXCEPT ![r] = "ReplyError"]
          /\ tmpdir' = tmpdir_exit(tmpdir, r)
          /\ files' = files_exit(files, r)
          /\ UNCHANGED <<replies, running>>
    /\ pending' = [pending EXCEPT ![r] = NoReply]
    /\ UNCHANGED <<envVars, fileName, tcall, outside, mainPc, kind, calls, failed, wsCreated, resp>>

\* Await points of handle_audio, where the task can be cancelled.
AwaitPoints == {"get_file_await", "download_await", "download_hung",
                "reply_await"}

\* The run's task is cancelled: CancelledError is raised at the await the
\* run is suspended in, passes the `except Exception` clauses and leaves
\* the with block, if entered, and handle_audio.
cancel(r) ==
    /\ running = 0
    /\ pc[r] \in AwaitPoints
    /\ pc' = [pc EXCEPT ![r] = "cancelled"]
    /\ exc' = [exc EXCEPT ![r] = "CancelledError"]
    /\ tmpdir' = tmpdir_exit(tmpdir, r)
    /\ files' = files_exit(files, r)
    /\ pending' = [pending EXCEPT ![r] = NoReply]
    /\ UNCHANGED <<envVars, fileName, tcall, outside, mainPc, running, kind, calls, failed, wsCreated,
                   resp, replies>>

\* ------------------------------------------------------------------------
\* Specifications
\* ------------------------------------------------------------------------

\* The steps of run r that the event loop takes on its own.
RunStep(r) ==
    \/ ensure_ffmpeg(r)
    \/ check_message(r)
    \/ get_file_return(r)
    \/ enter_workspace(r)
    \/ download_return(r)
    \/ from_file(r)
    \/ export(r)
    \/ transcribe_audio(r)
    \/ post_return(r)
    \/ reply_return(r)

Next ==
    \/ main_build
    \/ run_polling
    \/ \E r \in Runs : dispatch(r)
    \/ \E r \in Runs : RunStep(r)
    \/ \E r \in Runs : cancel(r)

Spec == Init /\ [][Next]_vars

\* ------------------------------------------------------------------------
\* transcribe_audio called on its own, with a language hint
\* ------------------------------------------------------------------------

\* transcribe_audio(file_path, language) up to requests.post: the check of
\* OPENAI_API_KEY and the construction of the request.
direct_call(l) ==
    /\ tcall.pc = "idle"
    /\ tcall' = IF api_key_missing(apiKey)
                THEN Call("raised", l, {}, NoResp, "")
                ELSE Call("post", l, request_data(l), NoResp, "")
    /\ UNCHANGED <<envVars, fileName, mainPc, running, pc, kind, calls,
                   failed, exc, wsCreated, tmpdir, files, outside, resp,
                   pending, replies>>

\* requests.post returns a response or raises a transport error; the
\* status check and the extraction of the text.
direct_return ==
    /\ tcall.pc = "post"
    /\ \/ \E rsp \in Responses :
            tcall' = IF status_is_error(rsp.status)
                     THEN [tcall EXCEPT !.pc = "raised", !.resp = rsp]
                     ELSE [tcall EXCEPT !.pc = "returned", !.resp = rsp,
                                        !.result = json_get_text(rsp)]
       \/ tcall' = [tcall EXCEPT !.pc = "raised"]
    /\ UNCHANGED <<envVars, fileName, mainPc, running, pc, kind, calls,
                   failed, exc, wsCreated, tmpdir, files, outside, resp,
                   pending, replies>>

NextDirect ==
    \/ \E l \in Languages : direct_call(l)
    \/ direct_return

SpecDirect == Init /\ [][NextDirect]_vars

\* The same process, with attachments that declare file names.
SpecNames == InitNames /\ [][Next]_vars

\* The event loop resumes every coroutine whose awaited call has returned
\* as soon as its thread is free, and a coroutine that owns the thread runs.
FairSpec ==
    /\ Spec
    /\ WF_vars(main_build)
    /\ WF_vars(run_polling)
    /\ \A r \in Runs : WF_vars(RunStep(r))

TypeOK ==
    /\ botToken \in EnvValues
    /\ apiKey \in EnvValues
    /\ ffmpeg \in BOOLEAN
    /\ mainPc \in {"start", "raised", "built", "polling"}
    /\ running \in 0..NumRuns
    /\ \A r \in Runs :
          /\ kind[r] \in MessageKinds
          /\ failed[r] \in {"none", "guard", "fetch", "transcode", "transcribe"}
          /\ fileName[r] \in FileNames
          /\ \A f \in files[r] : Inside(f.path, TmpDir(r))
          /\ tmpdir[r] \in BOOLEAN
          /\ Len(replies[r]) <= 1

\* ------------------------------------------------------------------------
\* Properties
\* ------------------------------------------------------------------------

Range(s) == {s[i] : i \in 1..Len(s)}

IsPrefix(s, t) == Len(s) <= Len(t) /\ \A i \in 1..Len(s) : s[i] = t[i]

\* The run awaits the reply p, or has delivered it as its only reply, and
\* has delivered nothing else.
OnlyReply(r, p) ==
    /\ pc[r] = "reply_await" => pending[r] = p
    /\ \A i \in 1..Len(replies[r]) : replies[r][i] = p
    /\ pc[r] = "done" => Len(replies[r]) = 1

\* C1: once handle_audio has returned, raised or been cancelled, the
\* temporary directory of the run and every file in it no longer exist.
C1_WorkspaceRemoved ==
    \A r \in Runs : Terminated(r) => ~tmpdir[r] /\ files[r] = {}

\* A run that created its workspace was cancelled while awaiting inside it,
\* and another one left it by a failed download.
C1_Witness ==
    \E r1, r2 \in Runs :
        /\ wsCreated[r1] /\ pc[r1] = "cancelled"
        /\ wsCreated[r2] /\ pc[r2] = "raised" /\ failed[r2] = "fetch"

\* C2: the stage calls of a run are a prefix of ensure_ffmpeg, get_file,
\* download_to_drive, from_file, export, transcribe_audio (each at most
\* once, in order), and the last call made is the one of the failing stage:
\* nothing is called after the first failure.
C2_StagePrefix ==
    \A r \in Runs :
        /\ IsPrefix(calls[r], StageCalls)
        /\ failed[r] # "none" =>
              /\ calls[r] # <<>>
              /\ StageOf(calls[r][Len(calls[r])]) = failed[r]

\* One run went through all four stages, another stopped at a failed
\* conversion and has replied.
C2_Witness ==
    \E r1, r2 \in Runs :
        /\ pc[r1] = "done" /\ calls[r1] = StageCalls /\ failed[r1] = "none"
        /\ pc[r2] = "done" /\ failed[r2] = "transcode"

\* C3: a failure of the fetch stage does not leave handle_audio; the run
\* ends with a fetch-stage apology sent to the sender.
C3_FetchFailureHandled ==
    \A r \in Runs :
        (failed[r] = "fetch" /\ Terminated(r)) =>
            /\ exc[r] = "none"
            /\ Len(replies[r]) = 1
            /\ replies[r][1].cat = "FetchFailure"

\* C4: when the conversion fails, the run replies with the conversion
\* apology and nothing else, transcribe_audio is not called and no
\* response of the transcription endpoint is ever obtained.
C4_TranscodeFailure ==
    \A r \in Runs :
        failed[r] = "transcode" =>
            /\ "transcribe_audio" \notin Range(calls[r])
            /\ resp[r] = NoResp
            /\ OnlyReply(r, Reply("TranscodeFailure", MsgTranscodeFail))

\* A failed export was answered with the conversion apology.
C4_Witness ==
    \E r \in Runs :
        /\ failed[r] = "transcode"
        /\ "export" \in Range(calls[r])
        /\ pc[r] = "done"
        /\ replies[r] = <<Reply("TranscodeFailure", MsgTranscodeFail)>>

\* C5: a response with a non-2xx status is answered with the one fixed
\* transcription apology, whatever the status and the body, and the body
\* is not the text of the reply.
C5_RejectedReplyFixed ==
    \A r \in Runs :
        (resp[r] # NoResp /\ ~Is2xx(resp[r].status)) =>
            /\ failed[r] = "transcribe"
            /\ OnlyReply(r, Reply("TranscribeFailure", MsgTranscribeFail))
            /\ pending[r].text # resp[r].body
            /\ \A i \in 1..Len(replies[r]) : replies[r][i].text # resp[r].body

\* Two runs were rejected with different statuses and bodies and got the
\* same reply.
C5_Witness ==
    \E r1, r2 \in Runs :
        /\ resp[r1].status = 400 /\ resp[r2].status = 500
        /\ resp[r1].body # resp[r2].body
        /\ pc[r1] = "done" /\ pc[r2] = "done"
        /\ replies[r1] = replies[r2]
        /\ Len(replies[r1]) = 1

C8_ReadyNeedsBothCredentials ==
    mainPc = "polling" => ~Falsy(botToken) /\ ~Falsy(apiKey)

\* C9: in a run where OPENAI_API_KEY is missing or ffmpeg is not
\* resolvable, no call of the fetch or transcode stage is made and no
\* workspace is created.
C9_GuardBeforeStages ==
    \A r \in Runs :
        (Falsy(apiKey) \/ ~ffmpeg) =>
            /\ \A c \in Range(calls[r]) : StageOf(c) \notin {"fetch", "transcode"}
            /\ ~wsCreated[r]

\* C10: a run that was dispatched and whose own download and transcription
\* request return eventually leaves handle_audio, whatever the other runs
\* on the event loop are waiting for.
C10_HangStallsOnlyItself ==
    \A r \in Runs :
        (pc[r] # "idle") ~>
            (Terminated(r) \/ pc[r] \in {"download_hung", "post_hung"})

\* The locations run r reads and writes inside its workspace scope.
PathsOf(r) ==
    {Resolve(original_path(r, fileName[r])),
     Resolve(converted_path(r, fileName[r]))}

\* C11: two runs that are inside their workspace scopes at the same time
\* use no common path, whatever file names their attachments declare.
C11_NoSharedPath ==
    \A r1, r2 \in Runs :
        (r1 # r2 /\ tmpdir[r1] /\ tmpdir[r2]) =>
            PathsOf(r1) \cap PathsOf(r2) = {}

\* C12: after a successful conversion the workspace of the run holds two
\* distinct files, the downloaded payload at original_path and the mp3 at
\* converted_path.
C12_TwoDistinctFiles ==
    \A r \in Runs :
        (tmpdir[r] /\ "export" \in Range(calls[r]) /\ failed[r] = "none") =>
            LET o == original_path(r, fileName[r])
                c == converted_path(r, fileName[r])
            IN  /\ o # c
                /\ files[r] = {File(o, "payload", r), File(c, "mp3", r)}

\* C13: the path the payload is downloaded to is <workspace>/<file name>
\* when a name is declared and <workspace>/input otherwise, and its
\* location lies inside the workspace of the run.
C13_DownloadInsideWorkspace ==
    \A r \in Runs :
        tmpdir[r] =>
            LET o == original_path(r, fileName[r])
            IN  /\ Inside(o, TmpDir(r))
                /\ o = TmpDir(r) \o (IF name_truthy(fileName[r])
                                     THEN fileName[r].parts
                                     ELSE <<NameInput>>)

\* C14: transcribe_audio raises for a response exactly when its status is
\* not of the 2xx class.
C14_ErrorIffNot2xx ==
    \A r \in Runs :
        resp[r] # NoResp =>
            (failed[r] = "transcribe" <=> ~Is2xx(resp[r].status))

\* Number of reply_text calls run r has made: the delivered replies and the
\* one it is awaiting.
ReplyCalls(r) == Len(replies[r]) + (IF pending[r] # NoReply THEN 1 ELSE 0)

\* C16: a run makes at most one reply_text call, so at most one of the
\* prompt, the two apologies, the empty-result reply and the transcript is
\* sent.
C16_AtMostOneReply ==
    \A r \in Runs : ReplyCalls(r) <= 1

\* Two runs have returned, one after the conversion apology and one after
\* a transcript, each with one reply.
C16_Witness ==
    \E r1, r2 \in Runs :
        /\ pc[r1] = "done" /\ pc[r2] = "done"
        /\ Len(replies[r1]) = 1 /\ replies[r1][1].cat = "TranscodeFailure"
        /\ Len(replies[r2]) = 1 /\ replies[r2][1].cat = "Success"

\* The run made no call of the fetch, transcode or transcribe stage, has no
\* workspace and no response.
NoPipeline(r) ==
    /\ Range(calls[r]) \subseteq {"ensure_ffmpeg"}
    /\ ~wsCreated[r]
    /\ ~tmpdir[r]
    /\ files[r] = {}
    /\ resp[r] = NoResp

\* C17: for a message without voice and audio the run sends nothing but
\* the prompt, has sent exactly the prompt when it returns, and resolves no
\* file handle, creates no workspace and invokes no later stage; without a
\* message the run sends nothing and returns once ensure_ffmpeg passed.
C17_NoAttachment ==
    \A r \in Runs :
        /\ kind[r] = "text" =>
              /\ NoPipeline(r)
              /\ pending[r] \in {NoReply, Reply("NoAudio", MsgNoAudio)}
              /\ \A i \in 1..Len(replies[r]) :
                    replies[r][i] = Reply("NoAudio", MsgNoAudio)
              /\ pc[r] = "done" => Len(replies[r]) = 1
        /\ kind[r] = "none" =>
              /\ NoPipeline(r)
              /\ pending[r] = NoReply
              /\ replies[r] = <<>>
              /\ pc[r] \notin {"reply_await", "cancelled"}
              /\ pc[r] = "raised" => failed[r] = "guard"

\* One run returned after sending the prompt, another returned for an
\* update without a message.
C17_Witness ==
    \E r1, r2 \in Runs :
        /\ kind[r1] = "text" /\ pc[r1] = "done"
        /\ replies[r1] = <<Reply("NoAudio", MsgNoAudio)>>
        /\ kind[r2] = "none" /\ pc[r2] = "done"
        /\ calls[r2] = <<"ensure_ffmpeg">>

\* C15: the request of transcribe_audio has a language field, equal to
\* the hint, exactly when the hint is not "auto", and its model field is
\* always "whisper-1"; it has no other model or language value.
C15_LanguageField ==
    tcall.pc \in {"post", "returned"} \/ tcall.resp # NoResp =>
        /\ <<"model", WhisperModel>> \in tcall.data
        /\ \A kv \in tcall.data :
              \/ kv = <<"model", WhisperModel>>
              \/ kv = <<"language", tcall.language>>
        /\ tcall.language # "auto" <=>
              <<"language", tcall.language>> \in tcall.data

\* A call with the hint "uk" returned after posting a request with that
\* language.
C15_Witness ==
    /\ tcall.pc = "returned"
    /\ tcall.language = "uk"
    /\ tcall.data = {<<"model", "whisper-1">>, <<"language", "uk">>}

====
